---- MODULE Spec2Model ----
(***************************************************************************)
(* State-machine model of the generalized sumcheck prover state            *)
(* (crates/core/src/protocols/sumcheck/prove_general.rs) together with the *)
(* regular-sumcheck round evaluation of src/protocols/sumcheck/            *)
(* prove_utils.rs.                                                         *)
(*                                                                         *)
(* The large field is GF(4) = GF(2)[x]/(x^2+x+1), the smallest binary      *)
(* tower field with a proper subfield; a small-field operand              *)
(* (extension_degree 2) takes its values in GF(2) = {0,1}.                 *)
(***************************************************************************)
EXTENDS Integers, Sequences, FiniteSets, TLC

(* ------------------------------ bounds --------------------------------- *)
\* largest n_rounds handed to new
MaxRounds == 2
\* largest number of multilinears handed to new
MaxOperands == 2
\* the operand tables are drawn from the family Table(0..MaxSeed, ...)
MaxSeed == 1
\* switchover_fn takes its values in 0..MaxSwitchover
MaxSwitchover == 3
\* the driver stops calling fold once round has reached this value
MaxFoldCalls == 2
\* the parallel iterator splits the index range among at most this many tasks
MaxTasks == 2
\* the driver of the round-coefficient functions makes at most this many calls
MaxCalls == 3

(* ------------------------------ field ---------------------------------- *)
Field == 0 .. 3

AddTable == << <<0, 1, 2, 3>>, <<1, 0, 3, 2>>, <<2, 3, 0, 1>>, <<3, 2, 1, 0>> >>

MulTable == << <<0, 0, 0, 0>>, <<0, 1, 2, 3>>, <<0, 2, 3, 1>>, <<0, 3, 1, 2>> >>

FAdd(a, b) == AddTable[a + 1][b + 1]

\* characteristic 2: subtraction is addition
FSub(a, b) == FAdd(a, b)

FMul(a, b) == MulTable[a + 1][b + 1]

RECURSIVE Pow2(_)
Pow2(n) == IF n <= 0 THEN 1 ELSE 2 * Pow2(n - 1)

\* sum of f[0] .. f[n-1] in the field
RECURSIVE FSum(_, _)
FSum(f, n) == IF n <= 0 THEN 0 ELSE FAdd(FSum(f, n - 1), f[n - 1])

\* product of the entries of a sequence in the field
RECURSIVE FProd(_)
FProd(s) == IF Len(s) = 0 THEN 1 ELSE FMul(Head(s), FProd(Tail(s)))

\* sum of the entries of a sequence in the field
RECURSIVE FSeqSum(_)
FSeqSum(s) == IF Len(s) = 0 THEN 0 ELSE FAdd(Head(s), FSeqSum(Tail(s)))

(* ------------------------- fallible results ---------------------------- *)
Ok(v) == [ok |-> TRUE, val |-> v]

Err(e) == [ok |-> FALSE, err |-> e]

(* ------------------ multilinear polynomials and queries ---------------- *)
ExtDegrees == {1, 2}

\* the evaluations of an operand over the hypercube {0,1}^nv, vertex i at index i
Table(seed, ext, nv) ==
  [i \in 0 .. Pow2(nv) - 1 |->
     ((i + seed * (1 + i + (i \div 2))) % 4) % (IF ext = 2 THEN 2 ELSE 4)]

MultilinearPolys ==
  { [n_vars |-> nv, extension_degree |-> ext, evals |-> Table(seed, ext, nv)] :
      nv \in 0 .. MaxRounds, ext \in ExtDegrees, seed \in 0 .. MaxSeed }

\* MultilinearQuery::new : an empty query, expansion <<1>>
MultilinearQueryNew(max_query_vars) ==
  Ok([max_query_vars |-> max_query_vars, n_vars |-> 0,
      expanded_query |-> [t \in 0 .. 0 |-> 1]])

\* MultilinearQuery::update with one extra coordinate c: the expansion doubles,
\* the low half scaled by 1-c and the high half by c
MultilinearQueryUpdate(q, c) ==
  IF q.n_vars + 1 > q.max_query_vars
  THEN Err("MultilinearQueryFull")
  ELSE LET old == Pow2(q.n_vars) IN
       Ok([max_query_vars |-> q.max_query_vars, n_vars |-> q.n_vars + 1,
           expanded_query |->
             [t \in 0 .. 2 * old - 1 |->
                IF t < old THEN FMul(q.expanded_query[t], FSub(1, c))
                ELSE FMul(q.expanded_query[t - old], c)]])

\* MultilinearQuery::with_full_query(&[c])
WithFullQuery(c) == MultilinearQueryUpdate(MultilinearQueryNew(1).val, c)

\* inner product of the query expansion with evals[base .. base + 2^n_vars - 1]
InnerProduct(q, evals, base) ==
  FSum([t \in 0 .. Pow2(q.n_vars) - 1 |->
          FMul(q.expanded_query[t], evals[base + t])], Pow2(q.n_vars))

\* MultilinearPoly::evaluate_on_hypercube
EvaluateOnHypercube(m, index) ==
  IF index >= Pow2(m.n_vars) THEN Err("HypercubeIndexOutOfRange")
  ELSE Ok(m.evals[index])

\* MultilinearPoly::evaluate_subcube : contraction of the low q.n_vars variables
\* against the query, at vertex index of the remaining variables
EvaluateSubcube(m, index, q) ==
  IF q.n_vars > m.n_vars THEN Err("IncorrectQuerySize")
  ELSE IF index >= Pow2(m.n_vars - q.n_vars) THEN Err("HypercubeIndexOutOfRange")
  ELSE Ok(InnerProduct(q, m.evals, index * Pow2(q.n_vars)))

\* MultilinearPoly::evaluate_partial_low : the large-field multilinear over the
\* n_vars - q.n_vars high variables
EvaluatePartialLow(m, q) ==
  IF q.n_vars > m.n_vars THEN Err("IncorrectQuerySize")
  ELSE Ok([n_vars |-> m.n_vars - q.n_vars,
           evals |-> [i \in 0 .. Pow2(m.n_vars - q.n_vars) - 1 |->
                        InnerProduct(q, m.evals, i * Pow2(q.n_vars))]])

(* --------------------------- SumcheckMultilinear ----------------------- *)
\* mutant: every operand is stored with switchover 1
TransparentAtOne(switchover, small_field_multilin) ==
  [tag |-> "Transparent", switchover |-> 1,
   small_field_multilin |-> small_field_multilin]

Transparent(switchover, small_field_multilin) ==
  [tag |-> "Transparent", switchover |-> switchover,
   small_field_multilin |-> small_field_multilin]

Folded(large_field_folded_multilin) ==
  [tag |-> "Folded", large_field_folded_multilin |-> large_field_folded_multilin]

None == << >>

Some(x) == << x >>

(* ------------------------------ new ------------------------------------ *)
\* mutant: the running maximum is never raised
MaxKeepsFirst(a, b) == a

\* cmp::max
Max(a, b) == IF a >= b THEN a ELSE b

\* mutant: an operand with fewer variables than n_rounds is accepted
ArityAtMost(multilin, n) == multilin.n_vars <= n

\* the validation of one operand in new
ArityMatches(multilin, n) == multilin.n_vars = n

\* the map/collect of new: operands are visited in order, the first one whose
\* n_vars differs from n_rounds ends the construction with an error
RECURSIVE NewLoop(_, _, _, _, _, _)
NewLoop(n, ms, fn, j, acc, max_query_vars) ==
  IF j > Len(ms)
  THEN Ok([multilinears |-> acc, max_query_vars |-> max_query_vars])
  ELSE IF ~ArityMatches(ms[j], n)
  THEN Err([kind |-> "IncorrectNumberOfVariables", expected |-> n,
            actual |-> ms[j].n_vars])
  ELSE LET switchover == fn[ms[j].extension_degree] IN
       NewLoop(n, ms, fn, j + 1, Append(acc, Transparent(switchover, ms[j])),
               Max(max_query_vars, switchover))

\* ProverState::new : the result, and the query allocated on the way (None when
\* the construction fails before the allocation)
ProverStateNew(n, ms, fn) ==
  LET collected == NewLoop(n, ms, fn, 1, << >>, 1) IN
  IF ~collected.ok
  THEN [ok |-> FALSE, err |-> collected.err, multilinears |-> << >>,
        query |-> None, round |-> 0, n_rounds |-> 0]
  ELSE LET q == MultilinearQueryNew(collected.val.max_query_vars) IN
       [ok |-> TRUE, multilinears |-> collected.val.multilinears,
        query |-> Some(q.val), round |-> 0, n_rounds |-> n]

(* ------------------------------ fold ----------------------------------- *)
\* the failures of the polynomial layer that do not depend on the arguments
\* (allocation): none, in update, in with_full_query, or in the
\* evaluate_partial_low of operand j
Injections(k) ==
  {[stage |-> s, at |-> 0] : s \in {"none", "update", "with_full_query"}}
    \cup {[stage |-> "partial_low", at |-> j] : j \in 1 .. k}

\* the first statement of fold
NextRound(rnd) == rnd + 1

\* mutant: the switchover happens one fold late
SwitchoverDueStrict(switchover, rnd) == switchover < rnd

\* the test that makes a Transparent operand switch over in this fold
SwitchoverDue(switchover, rnd) == switchover <= rnd

\* mutant: the partial query holds no coordinate, so nothing is halved
PartialQueryEmpty(c) == MultilinearQueryNew(1)

\* the one-variable query that halves the Folded operands
PartialQuery(c) == WithFullQuery(c)

\* mutant: the tensor is kept to the end
ReleaseQueryNever(any_transparent_left, query) == query

\* the last statement of fold: the tensor is dropped once nothing is Transparent
ReleaseQuery(any_transparent_left, query) ==
  IF ~any_transparent_left THEN None ELSE query

\* mutant: the halving weighs the even entry by c and the odd entry by 1 - c
HalveSwapped(large_field_folded_multilin, partial_query) ==
  EvaluatePartialLow(large_field_folded_multilin,
    [partial_query EXCEPT !.expanded_query =
       [t \in 0 .. 1 |-> partial_query.expanded_query[1 - t]]])

\* post-switchover, halve the large-field multilinear against the partial query
Halve(large_field_folded_multilin, partial_query) ==
  EvaluatePartialLow(large_field_folded_multilin, partial_query)

\* the loop of fold over the operands, from operand j on
RECURSIVE FoldLoop(_, _, _, _, _, _, _)
FoldLoop(ms, query, rnd, partial_query, inj, j, any_transparent_left) ==
  IF j > Len(ms)
  THEN [multilinears |-> ms, any_transparent_left |-> any_transparent_left,
        res |-> [kind |-> "Ok"]]
  ELSE IF ms[j].tag = "Transparent"
  THEN IF SwitchoverDue(ms[j].switchover, rnd)
       THEN IF query = None
            THEN [multilinears |-> ms, any_transparent_left |-> any_transparent_left,
                  res |-> [kind |-> "Panic", msg |-> "query is guaranteed to be Some"]]
            ELSE LET r == IF inj.at = j THEN Err("AllocationFailure")
                          ELSE EvaluatePartialLow(ms[j].small_field_multilin, query[1])
                 IN IF ~r.ok
                    THEN [multilinears |-> ms,
                          any_transparent_left |-> any_transparent_left,
                          res |-> [kind |-> "Err", err |-> r.err,
                                   stage |-> "partial_low", at |-> j]]
                    ELSE FoldLoop([ms EXCEPT ![j] = Folded(r.val)], query, rnd,
                                  partial_query, inj, j + 1, any_transparent_left)
       ELSE FoldLoop(ms, query, rnd, partial_query, inj, j + 1, TRUE)
  ELSE LET r == IF inj.at = j THEN Err("AllocationFailure")
                ELSE Halve(ms[j].large_field_folded_multilin, partial_query)
       IN IF ~r.ok
          THEN [multilinears |-> ms, any_transparent_left |-> any_transparent_left,
                res |-> [kind |-> "Err", err |-> r.err,
                         stage |-> "partial_low", at |-> j]]
          ELSE FoldLoop([ms EXCEPT ![j] = Folded(r.val)], query, rnd,
                        partial_query, inj, j + 1, any_transparent_left)

\* mutant: the operands are switched over against the tensor as it was before
\* the update
QueryBeforeUpdate(prev_query, expanded_query) == prev_query

\* query.replace(expanded_query): the tensor the loop over the operands sees is
\* the updated one
QueryReplace(prev_query, expanded_query) == expanded_query

\* the body of fold on the state st with challenge c: the fields as the call
\* leaves them, and what it returns
FoldSteps(st, c, inj) ==
  LET rnd == NextRound(st.round)
      updated == IF st.query = None THEN Ok(0)
                 ELSE IF inj.stage = "update" THEN Err("AllocationFailure")
                 ELSE MultilinearQueryUpdate(st.query[1], c)
  IN
  IF ~updated.ok
  THEN \* query.take() has emptied the option and the ? returns
       [multilinears |-> st.multilinears, query |-> None, round |-> rnd,
        res |-> [kind |-> "Err", err |-> updated.err, stage |-> "update", at |-> 0]]
  ELSE
  LET query == IF st.query = None THEN None
               ELSE QueryReplace(st.query, Some(updated.val))
      partial == IF inj.stage = "with_full_query" THEN Err("AllocationFailure")
                 ELSE PartialQuery(c)
  IN
  IF ~partial.ok
  THEN [multilinears |-> st.multilinears, query |-> query, round |-> rnd,
        res |-> [kind |-> "Err", err |-> partial.err,
                 stage |-> "with_full_query", at |-> 0]]
  ELSE
  LET looped == FoldLoop(st.multilinears, query, rnd, partial.val, inj, 1, FALSE) IN
  [multilinears |-> looped.multilinears,
   query |-> IF looped.res.kind = "Ok"
             THEN ReleaseQuery(looped.any_transparent_left, query) ELSE query,
   round |-> rnd,
   res |-> looped.res]

\* mutant: a failed fold puts the operands back as they were
FoldTransactional(st, c, inj) ==
  LET r == FoldSteps(st, c, inj) IN
  IF r.res.kind = "Ok" THEN r ELSE [r EXCEPT !.multilinears = st.multilinears]

\* ProverState::fold : nothing is rolled back when a step fails
ProverStateFold(st, c, inj) == FoldSteps(st, c, inj)

(* ------------------------- regular evaluator --------------------------- *)
\* the points of the evaluation domain, domain[0], domain[1], ...
DomainPoints == <<0, 1, 2, 3>>

Compositions == {"product", "sum"}

Degrees == {1, 3}

\* a regular sumcheck evaluator: a composition and the domain 0 .. degree
Evaluators == [composition : Compositions, degree : Degrees]

\* CompositionPoly::evaluate_packed
EvaluateComposition(composition, evals) ==
  IF composition = "product" THEN FProd(evals) ELSE FSeqSum(evals)

\* extrapolate_line : the line through (0, x0) and (1, x1) at z
ExtrapolateLine(x0, x1, z) == FAdd(x0, FMul(FSub(x1, x0), z))

\* the for loop of process_round_evals, d = 2 .. degree
RECURSIVE ProcessRoundEvalsLoop(_, _, _, _, _, _, _)
ProcessRoundEvalsLoop(composition, evals_0, evals_1, evals_z, round_evals, degree, d) ==
  IF d > degree
  THEN [evals_z |-> evals_z, round_evals |-> round_evals]
  ELSE LET z == [j \in 1 .. Len(evals_z) |->
                   ExtrapolateLine(evals_0[j], evals_1[j], DomainPoints[d + 1])]
       IN ProcessRoundEvalsLoop(composition, evals_0, evals_1, z,
            [round_evals EXCEPT ![d] = FAdd(@, EvaluateComposition(composition, z))],
            degree, d + 1)

\* mutant: the first entry accumulates the composition at X = 0
ProcessRoundEvalsAtZero(composition, evals_0, evals_1, evals_z, round_evals, degree) ==
  ProcessRoundEvalsLoop(composition, evals_0, evals_1, evals_z,
    [round_evals EXCEPT ![1] = FAdd(@, EvaluateComposition(composition, evals_0))],
    degree, 2)

\* process_round_evals : round_evals[0] takes the composition at X = 1,
\* round_evals[d-1] the composition at domain[d]; sequences are 1-based here
ProcessRoundEvals(composition, evals_0, evals_1, evals_z, round_evals, degree) ==
  ProcessRoundEvalsLoop(composition, evals_0, evals_1, evals_z,
    [round_evals EXCEPT ![1] = FAdd(@, EvaluateComposition(composition, evals_1))],
    degree, 2)

\* SumcheckEvaluator::n_round_evals
NRoundEvals(evaluator) == evaluator.degree

\* SumcheckEvaluator::process_vertex
ProcessVertex(evaluator, index, evals_0, evals_1, evals_z, round_evals) ==
  ProcessRoundEvals(evaluator.composition, evals_0, evals_1, evals_z, round_evals,
                    evaluator.degree)

(* --------------------------- sum_round_evals --------------------------- *)
Zeros(n) == [j \in 1 .. n |-> 0]

\* ParFoldState::new
ParFoldStateNew(n_multilinears, n_round_evals) ==
  [evals_0 |-> Zeros(n_multilinears), evals_1 |-> Zeros(n_multilinears),
   evals_z |-> Zeros(n_multilinears), round_evals |-> Zeros(n_round_evals)]

\* mutant: the vertices sampled are 2i+1 and 2i+2
DirectSampleShifted(multilin, i) ==
  LET eval0 == EvaluateOnHypercube(multilin, 2 * i + 1)
      eval1 == EvaluateOnHypercube(multilin, 2 * i + 2)
  IN IF ~eval0.ok THEN Err("eval 0 within range")
     ELSE IF ~eval1.ok THEN Err("eval 1 within range")
     ELSE Ok(<<eval0.val, eval1.val>>)

\* direct_sample : the values at the vertices 2i and 2i+1
DirectSample(multilin, i) ==
  LET eval0 == EvaluateOnHypercube(multilin, 2 * i)
      eval1 == EvaluateOnHypercube(multilin, 2 * i + 1)
  IN IF ~eval0.ok THEN Err("eval 0 within range")
     ELSE IF ~eval1.ok THEN Err("eval 1 within range")
     ELSE Ok(<<eval0.val, eval1.val>>)

\* subcube_inner_product : the values at 2i and 2i+1 contracted with the tensor
SubcubeInnerProduct(st, multilin, i) ==
  IF st.query = None THEN Err("tensor present by invariant")
  ELSE LET eval0 == EvaluateSubcube(multilin, 2 * i, st.query[1])
           eval1 == EvaluateSubcube(multilin, 2 * i + 1, st.query[1])
       IN IF ~eval0.ok THEN Err("eval 0 within range")
          ELSE IF ~eval1.ok THEN Err("eval 1 within range")
          ELSE Ok(<<eval0.val, eval1.val>>)

\* only_transparent
OnlyTransparent(sc_multilin) ==
  IF sc_multilin.tag = "Transparent" THEN Ok(sc_multilin.small_field_multilin)
  ELSE Err("all transparent by invariant")

\* only_folded
OnlyFolded(sc_multilin) ==
  IF sc_multilin.tag = "Folded" THEN Ok(sc_multilin.large_field_folded_multilin)
  ELSE Err("all folded by invariant")

AnyTransparent(st) ==
  \E j \in 1 .. Len(st.multilinears) : st.multilinears[j].tag = "Transparent"

AnyFolded(st) ==
  \E j \in 1 .. Len(st.multilinears) : st.multilinears[j].tag = "Folded"

\* mutant: all-Transparent operands are sampled directly in every round
KernelIgnoresRound(st) ==
  IF AnyTransparent(st) /\ ~AnyFolded(st) THEN "transparent_direct"
  ELSE IF ~AnyTransparent(st) /\ AnyFolded(st) THEN "folded_direct"
  ELSE "heterogeneous"

\* the match of sum_round_evals on (any_transparent, any_folded) and round
Kernel(st) ==
  IF AnyTransparent(st) /\ ~AnyFolded(st)
  THEN IF st.round = 0 THEN "transparent_direct" ELSE "transparent_subcube"
  ELSE IF ~AnyTransparent(st) /\ AnyFolded(st) THEN "folded_direct"
  ELSE "heterogeneous"

\* the precomp closure handed to sum_round_evals_helper by each kernel
Precomp(kernel, sc_multilin) ==
  IF kernel \in {"transparent_direct", "transparent_subcube"}
  THEN OnlyTransparent(sc_multilin)
  ELSE IF kernel = "folded_direct" THEN OnlyFolded(sc_multilin)
  ELSE Ok(sc_multilin)

\* mutant: the heterogeneous kernel samples a Transparent operand directly
Eval01MixedDirect(st, kernel, precomp, i) ==
  IF kernel = "transparent_direct" \/ kernel = "folded_direct"
  THEN DirectSample(precomp, i)
  ELSE IF kernel = "transparent_subcube" THEN SubcubeInnerProduct(st, precomp, i)
  ELSE IF precomp.tag = "Transparent"
       THEN DirectSample(precomp.small_field_multilin, i)
       ELSE DirectSample(precomp.large_field_folded_multilin, i)

\* the eval01 closure handed to sum_round_evals_helper by each kernel
Eval01(st, kernel, precomp, i) ==
  IF kernel = "transparent_direct" \/ kernel = "folded_direct"
  THEN DirectSample(precomp, i)
  ELSE IF kernel = "transparent_subcube" THEN SubcubeInnerProduct(st, precomp, i)
  ELSE IF precomp.tag = "Transparent"
       THEN SubcubeInnerProduct(st, precomp.small_field_multilin, i)
       ELSE DirectSample(precomp.large_field_folded_multilin, i)

\* the inner for loop of the fold closure: evals_0[j], evals_1[j] for every operand
RECURSIVE SampleLoop(_, _, _, _, _, _)
SampleLoop(st, kernel, precomps, i, j, state) ==
  IF j > Len(precomps) THEN Ok(state)
  ELSE LET e == Eval01(st, kernel, precomps[j], i) IN
       IF ~e.ok THEN e
       ELSE SampleLoop(st, kernel, precomps, i, j + 1,
              [state EXCEPT !.evals_0[j] = e.val[1], !.evals_1[j] = e.val[2]])

\* the fold closure of sum_round_evals_helper applied by one task to the indices
\* it was handed, from position k on; visited lists the indices on which
\* process_vertex was invoked
RECURSIVE VertexLoop(_, _, _, _, _, _, _)
VertexLoop(st, kernel, precomps, evaluator, indices, k, acc) ==
  IF k > Len(indices) THEN Ok(acc)
  ELSE LET i == indices[k]
           sampled == SampleLoop(st, kernel, precomps, i, 1, acc.state) IN
       IF ~sampled.ok THEN sampled
       ELSE LET processed == ProcessVertex(evaluator, i, sampled.val.evals_0,
                               sampled.val.evals_1, sampled.val.evals_z,
                               sampled.val.round_evals)
            IN VertexLoop(st, kernel, precomps, evaluator, indices, k + 1,
                 [state |-> [sampled.val EXCEPT !.evals_z = processed.evals_z,
                                                !.round_evals = processed.round_evals],
                  visited |-> Append(acc.visited, i)])

\* a schedule of the parallel iterator over n indices: the task each index is
\* handed to, and the order in which the tasks' partial sums are reduced
Schedules(n) ==
  [assign : [0 .. n - 1 -> 1 .. MaxTasks], order : Permutations(1 .. MaxTasks)]

\* the schedule of a pool of one thread: one task takes every index
OneTask(n) ==
  [assign |-> [i \in 0 .. n - 1 |-> 1], order |-> [t \in 1 .. MaxTasks |-> t]]

\* the indices handed to task t, in increasing order
TaskIndices(sched, n, t) ==
  SelectSeq([k \in 1 .. n |-> k - 1], LAMBDA i : sched.assign[i] = t)

\* mutant: the reduction keeps the partial sum it is handed and drops the sum so far
ReduceKeepsPartial(overall, partial) == partial

\* the reduce closure: overall[j] += partial[j]
ReduceRoundEvals(overall, partial) ==
  [j \in 1 .. Len(overall) |-> FAdd(overall[j], partial[j])]

\* the reduction of the tasks' partial sums, in the order of the schedule,
\* starting from the identity
RECURSIVE ReduceLoop(_, _, _, _)
ReduceLoop(partials, order, k, overall) ==
  IF k > MaxTasks THEN Ok(overall)
  ELSE LET partial == partials[order[k]] IN
       IF ~partial.ok THEN partial
       ELSE ReduceLoop(partials, order, k + 1,
              [round_evals |-> ReduceRoundEvals(overall.round_evals,
                                                partial.val.state.round_evals),
               visited |-> overall.visited \o partial.val.visited])

\* sum_round_evals_helper as a build with overflow checks runs it under a
\* schedule of the parallel iterator: when no variable remains, rd_vars - 1 (or
\* n_rounds - round itself) underflows and the subtraction panics
SumRoundEvalsHelper(st, kernel, evaluator, sched) ==
  LET rd_vars == st.n_rounds - st.round
      n_multilinears == Len(st.multilinears)
      n_round_evals == NRoundEvals(evaluator)
      precomps == [j \in 1 .. n_multilinears |-> Precomp(kernel, st.multilinears[j])]
  IN
  IF \E j \in 1 .. n_multilinears : ~precomps[j].ok
  THEN [kind |-> "Panic", msg |-> "kernel invariant"]
  ELSE IF rd_vars <= 0
  THEN [kind |-> "Panic", msg |-> "attempt to subtract with overflow"]
  ELSE LET n == Pow2(rd_vars - 1)
           partials == [t \in 1 .. MaxTasks |->
                          VertexLoop(st, kernel,
                            [j \in 1 .. n_multilinears |-> precomps[j].val],
                            evaluator, TaskIndices(sched, n, t), 1,
                            [state |-> ParFoldStateNew(n_multilinears, n_round_evals),
                             visited |-> <<>>])]
           summed == ReduceLoop(partials, sched.order, 1,
                       [round_evals |-> Zeros(n_round_evals), visited |-> <<>>])
       IN IF ~summed.ok THEN [kind |-> "Panic", msg |-> summed.err]
          ELSE [kind |-> "Evals", evaluator |-> evaluator,
                evals |-> summed.val.round_evals,
                n_vertices |-> Len(summed.val.visited),
                visited |-> {summed.val.visited[k] : k \in 1 .. Len(summed.val.visited)}]

\* the number of indices of the parallel iterator
NIndices(st) ==
  IF st.n_rounds - st.round > 0 THEN Pow2(st.n_rounds - st.round - 1) ELSE 0

\* sum_round_evals_helper as a build without overflow checks runs it: when no
\* variable remains the subtraction wraps and the masked shift gives a range of
\* at least 2^62 indices. Its first index is sampled: with an operand a sample
\* is out of range and the expect panics; with no operand process_vertex is
\* invoked on index after index and the call does not return
SumRoundEvalsHelperWrapping(st, kernel, evaluator) ==
  LET rd_vars == st.n_rounds - st.round
      n_multilinears == Len(st.multilinears)
      precomps == [j \in 1 .. n_multilinears |-> Precomp(kernel, st.multilinears[j])]
  IN
  IF rd_vars > 0 THEN SumRoundEvalsHelper(st, kernel, evaluator, OneTask(NIndices(st)))
  ELSE IF \E j \in 1 .. n_multilinears : ~precomps[j].ok
  THEN [kind |-> "Panic", msg |-> "kernel invariant"]
  ELSE LET sampled == SampleLoop(st, kernel,
                        [j \in 1 .. n_multilinears |-> precomps[j].val], 0, 1,
                        ParFoldStateNew(n_multilinears, NRoundEvals(evaluator)))
       IN IF ~sampled.ok THEN [kind |-> "Panic", msg |-> sampled.err]
          ELSE [kind |-> "Diverges", vertices_processed |-> 1]

\* ProverState::sum_round_evals on a pool of one thread
ProverStateSumRoundEvals(st, evaluator) ==
  SumRoundEvalsHelper(st, Kernel(st), evaluator, OneTask(NIndices(st)))

\* what a call of sum_round_evals can produce, over the schedules of the
\* parallel iterator and the two kinds of build
SumRoundEvalsOutcomes(st, evaluator) ==
  {SumRoundEvalsHelper(st, Kernel(st), evaluator, sched) :
     sched \in Schedules(NIndices(st))}
  \cup {SumRoundEvalsHelperWrapping(st, Kernel(st), evaluator)}

(* ------------------------------ state ---------------------------------- *)
VARIABLES
  pc,            \* "uninit" before new, "live", "dead" (new failed), "poisoned"
  args,          \* the arguments of new: n_rounds, multilinears, switchover_fn
  multilinears,  \* ProverState.multilinears
  query,         \* ProverState.query
  round,         \* ProverState.round
  n_rounds,      \* ProverState.n_rounds
  challenges,    \* the challenges of the fold calls made so far, in call order
  switched,      \* per operand, how often it went from Transparent to Folded
  ret,           \* what the last call returned
  output,        \* what the last round-coefficient function returned
  calls          \* the round each round-coefficient call so far computed, in call order

vars == <<pc, args, multilinears, query, round, n_rounds, challenges, switched, ret,
          output, calls>>

RECURSIVE SeqsUpTo(_, _)
SeqsUpTo(S, n) ==
  IF n = 0 THEN {<< >>}
  ELSE LET shorter == SeqsUpTo(S, n - 1) IN
       shorter \cup {Append(s, x) : s \in {t \in shorter : Len(t) = n - 1}, x \in S}

SwitchoverFns == [ExtDegrees -> 0 .. MaxSwitchover]

Init ==
  /\ pc = "uninit"
  /\ args \in [n_rounds : 0 .. MaxRounds,
               multilinears : SeqsUpTo(MultilinearPolys, MaxOperands),
               switchover_fn : SwitchoverFns]
  /\ multilinears = << >>
  /\ query = None
  /\ round = 0
  /\ n_rounds = 0
  /\ challenges = << >>
  /\ switched = << >>
  /\ ret = [kind |-> "None"]
  /\ output = [kind |-> "None"]
  /\ calls = << >>

New ==
  /\ pc = "uninit"
  /\ LET r == ProverStateNew(args.n_rounds, args.multilinears, args.switchover_fn) IN
     /\ pc' = IF r.ok THEN "live" ELSE "dead"
     /\ multilinears' = r.multilinears
     /\ query' = r.query
     /\ round' = r.round
     /\ n_rounds' = r.n_rounds
     /\ ret' = IF r.ok THEN [kind |-> "Ok"] ELSE [kind |-> "Err", err |-> r.err]
     /\ switched' = [j \in 1 .. Len(r.multilinears) |-> 0]
  /\ UNCHANGED <<args, challenges, output, calls>>

ProverState ==
  [multilinears |-> multilinears, query |-> query, round |-> round,
   n_rounds |-> n_rounds]

Fold ==
  /\ pc = "live"
  /\ round < MaxFoldCalls
  /\ \E c \in Field, inj \in Injections(Len(multilinears)) :
       LET r == ProverStateFold(ProverState, c, inj) IN
       /\ multilinears' = r.multilinears
       /\ query' = r.query
       /\ round' = r.round
       /\ ret' = r.res
       /\ pc' = IF r.res.kind = "Ok" THEN "live" ELSE "poisoned"
       /\ challenges' = Append(challenges, c)
       /\ switched' = [j \in 1 .. Len(multilinears) |->
                         IF multilinears[j].tag = "Transparent"
                            /\ r.multilinears[j].tag = "Folded"
                         THEN switched[j] + 1 ELSE switched[j]]
  /\ UNCHANGED <<args, n_rounds, output, calls>>

\* mutant: sum_round_evals takes the tensor out of the state
SumRoundEvalsTakingQuery ==
  /\ pc = "live"
  /\ \E evaluator \in Evaluators :
       ret' = ProverStateSumRoundEvals(ProverState, evaluator)
  /\ query' = None
  /\ UNCHANGED <<pc, args, multilinears, round, n_rounds, challenges, switched,
                 output, calls>>

\* a call of sum_round_evals with some evaluator
SumRoundEvals ==
  /\ pc = "live"
  /\ \E evaluator \in Evaluators :
       ret' \in SumRoundEvalsOutcomes(ProverState, evaluator)
  /\ UNCHANGED <<pc, args, multilinears, query, round, n_rounds, challenges, switched,
                 output, calls>>

Next == New \/ Fold \/ SumRoundEvals

Spec == Init /\ [][Next]_vars

(* ----------------------- reference definitions ------------------------- *)
\* bit t of the vertex index v
Bit(v, t) == (v \div Pow2(t)) % 2

\* the multilinear Lagrange factor of one variable: p at bit 1, 1-p at bit 0
EqFactor(bit, p) == IF bit = 1 THEN p ELSE FSub(1, p)

\* the Lagrange weight of vertex b at the point (point[1], .., point[n]),
\* variable t-1 of the hypercube index being point[t]
RECURSIVE EqWeight(_, _, _)
EqWeight(b, point, t) ==
  IF t > Len(point) THEN 1
  ELSE FMul(EqFactor(Bit(b, t - 1), point[t]), EqWeight(b, point, t + 1))

\* the multilinear extension of the table m at a point of Field^n_vars
MultilinearExtension(m, point) ==
  FSum([b \in 0 .. Pow2(m.n_vars) - 1 |-> FMul(m.evals[b], EqWeight(b, point, 1))],
       Pow2(m.n_vars))

\* the vertex v of {0,1}^n as a point
VertexPoint(v, n) == [t \in 1 .. n |-> Bit(v, t - 1)]

\* the naive prover: the round polynomial of round Len(challs) at X = x, summed
\* over the vertices of the variables after the current one
NaiveRoundSum(composition, ms, challs, n, x) ==
  LET rest == n - Len(challs) - 1 IN
  FSum([v \in 0 .. Pow2(rest) - 1 |->
          EvaluateComposition(composition,
            [j \in 1 .. Len(ms) |->
               MultilinearExtension(ms[j], challs \o <<x>> \o VertexPoint(v, rest))])],
       Pow2(rest))

NoInjection == [stage |-> "none", at |-> 0]

\* a prover state driven through the folds of challs, none of which may fail
RECURSIVE RunFolds(_, _)
RunFolds(run, challs) ==
  IF Len(challs) = 0 \/ ~run.ok THEN run
  ELSE LET r == ProverStateFold(run.st, Head(challs), NoInjection) IN
       RunFolds([ok |-> r.res.kind = "Ok",
                 st |-> [multilinears |-> r.multilinears, query |-> r.query,
                         round |-> r.round, n_rounds |-> run.st.n_rounds]],
                Tail(challs))

\* the prover built from the same arguments but the switchover function fn, and
\* folded with the same challenges
OtherProver(fn) ==
  LET r == ProverStateNew(args.n_rounds, args.multilinears, fn) IN
  RunFolds([ok |-> r.ok,
            st |-> [multilinears |-> r.multilinears, query |-> r.query,
                    round |-> r.round, n_rounds |-> r.n_rounds]],
           challenges)

\* the last call was sum_round_evals, on the state the variables still hold
LastCallWasSum == pc = "live" /\ ret.kind \in {"Evals", "Panic", "Diverges"}

(* ------------------------------ claims --------------------------------- *)
\* C1 (switchover equivalence): in every round below n_rounds sum_round_evals
\* returns a vector, and the prover built with any other switchover function and
\* folded with the same challenges returns the same vector for the same evaluator.
C1_SwitchoverEquivalence ==
  (LastCallWasSum /\ round < n_rounds) =>
    /\ ret.kind = "Evals"
    /\ \A fn \in SwitchoverFns :
         /\ OtherProver(fn).ok
         /\ ProverStateSumRoundEvals(OtherProver(fn).st, ret.evaluator) = ret

\* a round after the first in which this prover is mixed (one operand already
\* Folded, one still Transparent) and returned a vector that is not all zero
C1_Witness ==
  /\ LastCallWasSum /\ ret.kind = "Evals"
  /\ round = 1 /\ n_rounds = 2
  /\ AnyTransparent(ProverState) /\ AnyFolded(ProverState)
  /\ \E e \in 1 .. Len(ret.evals) : ret.evals[e] # 0

\* C2 (regular sumcheck round values): entry e-1 of the returned vector is the
\* sum, over the vertices of the variables after the current one, of the
\* composition of the multilinear extensions at (challenges, domain[e], vertex).
C2_RoundValuesMatchNaiveProver ==
  (LastCallWasSum /\ round < n_rounds) =>
    /\ ret.kind = "Evals"
    /\ Len(ret.evals) = ret.evaluator.degree
    /\ \A e \in 1 .. ret.evaluator.degree :
         ret.evals[e] = NaiveRoundSum(ret.evaluator.composition, args.multilinears,
                                      challenges, n_rounds, DomainPoints[e + 1])

\* a degree-3 product evaluated in the second round of two operands, after a
\* challenge outside {0,1}, with a nonzero value at the last domain point
C2_Witness ==
  /\ LastCallWasSum /\ ret.kind = "Evals"
  /\ round = 1 /\ n_rounds = 2 /\ Len(multilinears) = 2
  /\ challenges[1] \in {2, 3}
  /\ ret.evaluator = [composition |-> "product", degree |-> 3]
  /\ ret.evals[3] # 0

\* the switchover new computed for operand j
ArgSwitchover(j) == args.switchover_fn[args.multilinears[j].extension_degree]

\* C3 (tensor lifecycle): in every state reached by new and successful folds the
\* tensor query is present if and only if some operand is Transparent.
C3_TensorPresentIffTransparent ==
  pc = "live" => ((query # None) <=> AnyTransparent(ProverState))

\* C4 as stated (exactly once over a run): at the end of a run of n_rounds >= 1
\* successful folds every operand has made the Transparent-to-Folded transition
\* exactly once.
C4_ExactlyOnceOverARun ==
  (pc = "live" /\ n_rounds >= 1 /\ round = n_rounds) =>
    \A j \in 1 .. Len(multilinears) : switched[j] = 1

\* a Folded operand stays Folded in the next state
C4_FoldedStaysFolded ==
  \A j \in 1 .. Len(multilinears) :
    multilinears[j].tag = "Folded" => multilinears'[j].tag = "Folded"

\* an operand has one variant, it has made the transition at most once, and it is
\* Folded exactly when it has made it; at the end of a run of n_rounds >= 1
\* successful folds it has made it exactly when its switchover is at most n_rounds
C4_AtMostOnce ==
  pc \in {"live", "poisoned"} =>
    \A j \in 1 .. Len(multilinears) :
      /\ multilinears[j].tag \in {"Transparent", "Folded"}
      /\ switched[j] \in {0, 1}
      /\ (switched[j] = 1) <=> (multilinears[j].tag = "Folded")
      /\ (pc = "live" /\ n_rounds >= 1 /\ round = n_rounds) =>
           ((switched[j] = 1) <=> (ArgSwitchover(j) <= n_rounds))

\* C4 amended (switchover monotonicity): once Folded an operand is Folded in every
\* later state, it is never both variants, and it makes the Transparent-to-Folded
\* transition at most once: exactly once over a run of n_rounds >= 1 successful
\* folds when its switchover is at most n_rounds, and never when it is larger.
C4_SwitchoverMonotonicity ==
  [][C4_FoldedStaysFolded]_vars /\ []C4_AtMostOnce

\* an operand that switched over in the first fold and was halved by the second,
\* next to one that is still Transparent at the end of the run
C4_Witness ==
  /\ pc = "live" /\ n_rounds = 2 /\ round = 2
  /\ \E j \in 1 .. Len(multilinears) :
       multilinears[j].tag = "Folded" /\ ArgSwitchover(j) = 1
  /\ \E j \in 1 .. Len(multilinears) : multilinears[j].tag = "Transparent"

\* the number of variables an operand still ranges over: those of its folded
\* table, or those of its small-field table that the tensor does not pin
EffectiveVars(m, q) ==
  IF m.tag = "Folded" THEN m.large_field_folded_multilin.n_vars
  ELSE m.small_field_multilin.n_vars - (IF q = None THEN 0 ELSE q[1].n_vars)

\* C5 (arity preservation): after r <= n_rounds successful folds every operand
\* ranges over n_rounds - r variables, and a Folded operand holds a table of
\* exactly 2^(n_rounds - round) values.
C5_ArityPreservation ==
  (pc = "live" /\ round <= n_rounds) =>
    \A j \in 1 .. Len(multilinears) :
      /\ EffectiveVars(multilinears[j], query) = n_rounds - round
      /\ multilinears[j].tag = "Folded" =>
           DOMAIN multilinears[j].large_field_folded_multilin.evals
             = 0 .. Pow2(n_rounds - round) - 1

\* after the second fold: one operand produced by a switchover in this fold, one
\* produced by halving
C5_Witness ==
  /\ pc = "live" /\ n_rounds = 2 /\ round = 2 /\ Len(multilinears) = 2
  /\ \A j \in 1 .. 2 : multilinears[j].tag = "Folded"
  /\ ArgSwitchover(1) = 2 /\ ArgSwitchover(2) = 1

\* C6 (round bound): round never exceeds n_rounds, whatever the number of fold
\* calls (stated for provers of at least one round and one operand).
C6_RoundBound ==
  (pc \in {"live", "poisoned"} /\ n_rounds >= 1 /\ Len(multilinears) >= 1) =>
    round <= n_rounds

\* C7 as stated (completion): after n_rounds successful folds every operand is
\* Folded with a single value and the tensor is released, for any switchover_fn
\* (stated for provers of at least one round).
C7_CompletionForAnySwitchover ==
  (pc = "live" /\ n_rounds >= 1 /\ round = n_rounds) =>
    /\ \A j \in 1 .. Len(multilinears) :
         /\ multilinears[j].tag = "Folded"
         /\ multilinears[j].large_field_folded_multilin.n_vars = 0
    /\ query = None

\* C7 amended (completion): when n_rounds >= 1 and the switchover of every operand
\* is at most n_rounds, after n_rounds successful folds every operand is Folded
\* and holds a single field element, and the tensor query has been released.
C7_Completion ==
  (/\ pc = "live" /\ n_rounds >= 1 /\ round = n_rounds
   /\ \A j \in 1 .. Len(multilinears) : ArgSwitchover(j) <= n_rounds) =>
    /\ \A j \in 1 .. Len(multilinears) :
         /\ multilinears[j].tag = "Folded"
         /\ multilinears[j].large_field_folded_multilin.n_vars = 0
         /\ DOMAIN multilinears[j].large_field_folded_multilin.evals = {0}
    /\ query = None

\* the end of a two-round run of two operands that switched over in different
\* folds, one of them in the last
C7_Witness ==
  /\ pc = "live" /\ n_rounds = 2 /\ round = 2 /\ Len(multilinears) = 2
  /\ ArgSwitchover(1) = 1 /\ ArgSwitchover(2) = 2
  /\ query = None

\* the operands of new whose n_vars is not n_rounds
Mismatching ==
  {j \in 1 .. Len(args.multilinears) : args.multilinears[j].n_vars # args.n_rounds}

\* max(1, the largest switchover of the operands)
MaxArgSwitchover ==
  LET S == {1} \cup {ArgSwitchover(j) : j \in 1 .. Len(args.multilinears)} IN
  CHOOSE m \in S : \A x \in S : m >= x

ExpectedQuery(max_query_vars, challs) ==
  [max_query_vars |-> max_query_vars, n_vars |-> Len(challs),
   expanded_query |-> [t \in 0 .. Pow2(Len(challs)) - 1 |-> EqWeight(t, challs, 1)]]

\* the table m with its low Len(challs) variables fixed to challs
ExpectedFolded(m, challs) ==
  LET rest == m.n_vars - Len(challs) IN
  Folded([n_vars |-> rest,
          evals |-> [v \in 0 .. Pow2(rest) - 1 |->
                       MultilinearExtension(m, challs \o VertexPoint(v, rest))]])

\* what a fold that brings the challenges to challs makes of the operand old,
\* built from the table m: a Transparent operand not yet due is kept, any other
\* becomes the folding of m by all the challenges
ExpectedOperand(old, m, challs) ==
  IF old.tag = "Transparent" /\ old.switchover > Len(challs) THEN old
  ELSE ExpectedFolded(m, challs)

\* a step of fold that returns an error
C9_FailedFoldStep ==
  (pc = "live" /\ pc' = "poisoned") =>
    /\ ret'.kind = "Err"
    /\ round' = round + 1
    /\ ret'.stage = "partial_low" =>
         /\ query' = IF query = None THEN None
                     ELSE Some(ExpectedQuery(query[1].max_query_vars, challenges'))
         /\ \A i \in 1 .. Len(multilinears) :
              multilinears'[i] =
                IF i < ret'.at
                THEN ExpectedOperand(multilinears[i], args.multilinears[i], challenges')
                ELSE multilinears[i]
    /\ ret'.stage = "update" => multilinears' = multilinears

\* C9 (fold is not transactional): when partial_low fails on operand j, fold
\* returns the error with round advanced and the tensor extended, the operands
\* before j at their new-round value and operand j and the later ones as they
\* were; when the tensor update fails no operand has been touched.
C9_FoldNotTransactional == [][C9_FailedFoldStep]_vars

\* partial_low failed on the second operand in the second fold, after the first
\* operand had been halved
C9_Witness ==
  /\ pc = "poisoned" /\ ret.kind = "Err" /\ ret.stage = "partial_low" /\ ret.at = 2
  /\ n_rounds = 2 /\ round = 2
  /\ multilinears[1].tag = "Folded"
  /\ multilinears[1].large_field_folded_multilin.n_vars = 0
  /\ multilinears[2].tag = "Folded"
  /\ multilinears[2].large_field_folded_multilin.n_vars = 1

\* a step of sum_round_evals: the prover is live and no challenge is consumed
C10_SumStep ==
  (pc = "live" /\ challenges' = challenges) =>
    /\ UNCHANGED <<pc, round, n_rounds, multilinears, query>>
    /\ (ret.kind = "Evals" /\ ret'.kind = "Evals"
        /\ ret'.evaluator = ret.evaluator) => ret' = ret

\* C10 (sum_round_evals is read-only): a call leaves round, n_rounds, the
\* operands and the tensor query as they were, and a second call with the same
\* evaluator before the next fold returns the same vector.
C10_SumRoundEvalsReadOnly == [][C10_SumStep]_vars

\* sum_round_evals has returned a vector in a round where the tensor is in use
C10_Witness ==
  /\ LastCallWasSum /\ ret.kind = "Evals"
  /\ round = 1 /\ query # None /\ Len(multilinears) = 2

\* C11 (exhausted prover): a call of sum_round_evals when no variable remains
\* (round = n_rounds) returns the zero vector.
C11_ExhaustedReturnsZeroVector ==
  (LastCallWasSum /\ round = n_rounds) =>
    /\ ret.kind = "Evals"
    /\ \A e \in 1 .. Len(ret.evals) : ret.evals[e] = 0

\* the vector one task computes by processing every index in increasing order
SequentialEvals(st, evaluator) ==
  LET n_multilinears == Len(st.multilinears)
      kernel == Kernel(st)
  IN VertexLoop(st, kernel,
       [j \in 1 .. n_multilinears |-> Precomp(kernel, st.multilinears[j]).val],
       evaluator, [k \in 1 .. NIndices(st) |-> k - 1], 1,
       [state |-> ParFoldStateNew(n_multilinears, NRoundEvals(evaluator)),
        visited |-> <<>>]).val.state.round_evals

\* C12 (parallelism determinism): while variables remain, whatever the split of
\* the index range among tasks and the order of reduction the call ran under,
\* the vector returned by sum_round_evals is the one a single task computes
\* sequentially, and every index is processed exactly once.
C12_ParallelismDeterminism ==
  (LastCallWasSum /\ round < n_rounds) =>
    /\ ret.kind = "Evals"
    /\ ret.evals = SequentialEvals(ProverState, ret.evaluator)
    /\ ret.visited = 0 .. NIndices(ProverState) - 1
    /\ ret.n_vertices = NIndices(ProverState)

\* two tasks took one index each and the vector returned is not zero
C12_Witness ==
  /\ LastCallWasSum /\ ret.kind = "Evals"
  /\ NIndices(ProverState) = 2
  /\ \E e \in 1 .. Len(ret.evals) : ret.evals[e] # 0
  /\ \E sched \in Schedules(2) :
       /\ sched.assign[0] # sched.assign[1]
       /\ sched.order[1] = 2
       /\ ret = SumRoundEvalsHelper(ProverState, Kernel(ProverState), ret.evaluator, sched)

\* a step of a successful fold halves every operand that was already Folded
C13_HalvingStep ==
  (pc = "live" /\ pc' = "live" /\ round' = round + 1) =>
    \A j \in 1 .. Len(multilinears) :
      multilinears[j].tag = "Folded" =>
        LET c == challenges'[Len(challenges')]
            prev == multilinears[j].large_field_folded_multilin
        IN /\ multilinears'[j].tag = "Folded"
           /\ multilinears'[j].large_field_folded_multilin.n_vars = prev.n_vars - 1
           /\ \A i \in 0 .. Pow2(prev.n_vars - 1) - 1 :
                multilinears'[j].large_field_folded_multilin.evals[i] =
                  FAdd(FMul(c, prev.evals[2 * i + 1]),
                       FMul(FSub(1, c), prev.evals[2 * i]))

\* the operand m(x) = x of a prover over one variable
TrivialOperand(j) ==
  /\ args.n_rounds = 1
  /\ args.multilinears[j].evals = [i \in 0 .. 1 |-> i]

\* C13 as stated (trivial scenario): for n = 1 and the operand m(x) = x, fold(c)
\* leaves a single-element Folded operand equal to c.
C13_TrivialFoldAsStated ==
  (pc = "live" /\ round = 1) =>
    \A j \in 1 .. Len(multilinears) :
      TrivialOperand(j) =>
        /\ multilinears[j].tag = "Folded"
        /\ multilinears[j].large_field_folded_multilin.evals =
             [i \in 0 .. 0 |-> challenges[1]]

\* the trivial scenario for an operand whose switchover is due at the first fold
C13_TrivialFold ==
  (pc = "live" /\ round = 1) =>
    \A j \in 1 .. Len(multilinears) :
      (TrivialOperand(j) /\ ArgSwitchover(j) <= 1) =>
        /\ multilinears[j].tag = "Folded"
        /\ multilinears[j].large_field_folded_multilin.evals =
             [i \in 0 .. 0 |-> challenges[1]]

\* C13 (fold consistency): a successful fold(c) of an already Folded operand
\* gives new(i) = c * prev(2i+1) + (1-c) * prev(2i); for n = 1 and the operand
\* m(x) = x with switchover at most 1, fold(c) leaves the single-element Folded
\* operand c.
C13_FoldConsistency == [][C13_HalvingStep]_vars /\ []C13_TrivialFold

\* the second fold of a run has halved an operand folded by the first, and the
\* value left is not zero
C13_Witness ==
  /\ pc = "live" /\ n_rounds = 2 /\ round = 2
  /\ \E j \in 1 .. Len(multilinears) :
       /\ ArgSwitchover(j) <= 1
       /\ multilinears[j].tag = "Folded"
       /\ multilinears[j].large_field_folded_multilin.evals[0] \notin {0, 1}

\* C14 (switchover positivity): in the state new returns, every operand's stored
\* switchover is at least 1.
C14_StoredSwitchoverAtLeastOne ==
  (pc = "live" /\ round = 0) =>
    \A j \in 1 .. Len(multilinears) :
      /\ multilinears[j].tag = "Transparent"
      /\ multilinears[j].switchover >= 1

\* C15 (switchover timing): in every state reached by successful folds, an
\* operand with switchover u >= 1 is Transparent exactly when round < u and
\* Folded exactly when round >= u; when every switchover is 1, after one fold
\* all operands are Folded and the tensor is released; when every switchover is
\* n_rounds, the operands are Transparent in rounds 0..n_rounds-1 and Folded
\* after the final fold.
C15_SwitchoverTiming ==
  pc = "live" =>
    LET J == 1 .. Len(multilinears) IN
    /\ \A j \in J :
         ArgSwitchover(j) >= 1 =>
           /\ multilinears[j].tag = "Transparent" <=> round < ArgSwitchover(j)
           /\ multilinears[j].tag = "Folded" <=> round >= ArgSwitchover(j)
    /\ ((\A j \in J : ArgSwitchover(j) = 1) /\ round >= 1) =>
         /\ \A j \in J : multilinears[j].tag = "Folded"
         /\ query = None
    /\ ((\A j \in J : ArgSwitchover(j) = n_rounds) /\ n_rounds >= 1) =>
         /\ round < n_rounds => \A j \in J : multilinears[j].tag = "Transparent"
         /\ round = n_rounds => \A j \in J : multilinears[j].tag = "Folded"

\* two operands with switchover n_rounds = 2 were kept Transparent by the first
\* fold and switched over by the final one
C15_Witness ==
  /\ pc = "live" /\ n_rounds = 2 /\ round = 2 /\ Len(multilinears) = 2
  /\ \A j \in 1 .. 2 : ArgSwitchover(j) = 2 /\ multilinears[j].tag = "Folded"
  /\ switched = <<1, 1>>

\* wherever the tensor is present it is the tensor of the challenges of the
\* fold calls made so far, in call order
C16_TensorOfChallenges ==
  (pc \in {"live", "poisoned"} /\ query # None) =>
    /\ Len(challenges) = round
    /\ query[1].n_vars = round
    /\ DOMAIN query[1].expanded_query = 0 .. Pow2(round) - 1
    /\ query[1].expanded_query =
         ExpectedQuery(query[1].max_query_vars, challenges).expanded_query

\* an operand that a successful fold switches over becomes the folding of its
\* table by all the challenges, the one of this fold included
C16_SwitchingStep ==
  (pc = "live" /\ pc' = "live" /\ round' = round + 1) =>
    \A j \in 1 .. Len(multilinears) :
      (multilinears[j].tag = "Transparent" /\ multilinears'[j].tag = "Folded") =>
        /\ Len(challenges') = round'
        /\ multilinears'[j] = ExpectedFolded(args.multilinears[j], challenges')

\* C16 (tensor contents and ordering): whenever the tensor query is present it
\* holds the challenges of the fold calls so far in call order (round variables,
\* 2^round entries), and an operand switching over in the fold that brings round
\* to r has been contracted against the tensor of all r challenges.
C16_TensorContentsAndOrdering == []C16_TensorOfChallenges /\ [][C16_SwitchingStep]_vars

\* an operand switched over in the second fold, against a tensor of two
\* different challenges, and its folded value is not zero
C16_Witness ==
  /\ pc = "live" /\ n_rounds = 2 /\ round = 2
  /\ challenges[1] # challenges[2] /\ challenges[1] \notin {0, 1}
  /\ \E j \in 1 .. Len(multilinears) :
       /\ ArgSwitchover(j) = 2
       /\ multilinears[j].tag = "Folded"
       /\ multilinears[j].large_field_folded_multilin.evals[0] # 0

\* the switchovers of the operands that are still Transparent
TransparentSwitchovers ==
  {multilinears[j].switchover :
     j \in {k \in 1 .. Len(multilinears) : multilinears[k].tag = "Transparent"}}

\* C17 (tensor sizing): in every state where the tensor query is present (and
\* some operand is Transparent), the number of variables it is provisioned for
\* is the largest switchover among the operands that are still Transparent.
C17_TensorSizing ==
  (pc \in {"live", "poisoned"} /\ query # None /\ TransparentSwitchovers # {}) =>
    /\ query[1].max_query_vars \in TransparentSwitchovers
    /\ \A u \in TransparentSwitchovers : u <= query[1].max_query_vars

\* the sizing rule in the states where every operand was given a switchover of
\* at least 1
C17_TensorSizingPositive ==
  (\A j \in 1 .. Len(args.multilinears) : ArgSwitchover(j) >= 1) => C17_TensorSizing

\* the sample the per-operand rule prescribes for an operand at index i: the
\* hypercube values at 2i and 2i+1 of a Folded operand or of any operand in
\* round 0, the subcube evaluations at 2i and 2i+1 against the tensor of a
\* Transparent operand in a later round
PrescribedSample(sc_multilin, i) ==
  IF sc_multilin.tag = "Folded"
  THEN <<EvaluateOnHypercube(sc_multilin.large_field_folded_multilin, 2 * i),
         EvaluateOnHypercube(sc_multilin.large_field_folded_multilin, 2 * i + 1)>>
  ELSE IF round = 0
  THEN <<EvaluateOnHypercube(sc_multilin.small_field_multilin, 2 * i),
         EvaluateOnHypercube(sc_multilin.small_field_multilin, 2 * i + 1)>>
  ELSE IF query = None THEN <<Err("no tensor"), Err("no tensor")>>
  ELSE <<EvaluateSubcube(sc_multilin.small_field_multilin, 2 * i, query[1]),
         EvaluateSubcube(sc_multilin.small_field_multilin, 2 * i + 1, query[1])>>

\* C18 (kernel dispatch): in every state reached by new and successful folds,
\* the kernel chosen from (any_transparent, any_folded, round) samples every
\* operand at every index as the per-operand rule prescribes; only_transparent
\* and only_folded never meet an operand of the other variant, and the mixed
\* kernel is never applied to a Transparent operand in round 0.
C18_KernelDispatch ==
  pc = "live" =>
    LET kernel == Kernel(ProverState) IN
    /\ \A j \in 1 .. Len(multilinears) :
         LET precomp == Precomp(kernel, multilinears[j]) IN
         /\ precomp.ok
         /\ \A i \in 0 .. NIndices(ProverState) - 1 :
              LET sample == Eval01(ProverState, kernel, precomp.val, i)
                  rule == PrescribedSample(multilinears[j], i)
              IN /\ sample.ok /\ rule[1].ok /\ rule[2].ok
                 /\ sample.val = <<rule[1].val, rule[2].val>>
    /\ (kernel = "heterogeneous" /\ round = 0) => ~AnyTransparent(ProverState)

\* sum_round_evals ran the mixed kernel on a Folded and a Transparent operand
\* in round 1 of 2, and the vector returned is not zero
C18_Witness ==
  /\ LastCallWasSum /\ ret.kind = "Evals"
  /\ n_rounds = 2 /\ round = 1
  /\ Kernel(ProverState) = "heterogeneous"
  /\ AnyTransparent(ProverState) /\ AnyFolded(ProverState)
  /\ \E e \in 1 .. Len(ret.evals) : ret.evals[e] # 0

\* the number of vertices an operand still ranges over
RemainingVertices(sc_multilin) ==
  IF sc_multilin.tag = "Folded"
  THEN Pow2(sc_multilin.large_field_folded_multilin.n_vars)
  ELSE Pow2(sc_multilin.small_field_multilin.n_vars - round)

\* C19 (sum_round_evals cannot fail under the usage contract): in every state
\* reached by new and r < n_rounds successful folds, every index 2i and 2i+1
\* sampled is below 2^(n_rounds - r), the remaining-vertex count of every
\* operand, the tensor is present (over r variables) whenever a Transparent
\* operand is sampled by subcube inner product, and a call of sum_round_evals
\* does not panic.
C19_SumRoundEvalsCannotFail ==
  (pc = "live" /\ round < n_rounds) =>
    /\ \A j \in 1 .. Len(multilinears) :
         /\ RemainingVertices(multilinears[j]) = Pow2(n_rounds - round)
         /\ \A i \in 0 .. NIndices(ProverState) - 1 :
              2 * i + 1 < RemainingVertices(multilinears[j])
         /\ (multilinears[j].tag = "Transparent" /\ round >= 1) =>
              query # None /\ query[1].n_vars = round
    /\ LastCallWasSum => ret.kind = "Evals"

\* sum_round_evals sampled two Transparent operands by subcube inner product in
\* round 1 of 2 and returned a vector that is not zero
C19_Witness ==
  /\ LastCallWasSum /\ ret.kind = "Evals"
  /\ n_rounds = 2 /\ round = 1 /\ Len(multilinears) = 2
  /\ Kernel(ProverState) = "transparent_subcube"
  /\ \E e \in 1 .. Len(ret.evals) : ret.evals[e] # 0

\* a step of fold on a state that holds the tensor: the new round fits the
\* capacity fixed by new, and the update does not fail for lack of capacity
C20_ExtendStep ==
  (pc = "live" /\ round' = round + 1 /\ query # None) =>
    /\ query[1].max_query_vars = MaxArgSwitchover
    /\ round' <= query[1].max_query_vars
    /\ ~(ret'.kind = "Err" /\ ret'.err = "MultilinearQueryFull")

\* C20 (tensor capacity): for every switchover_fn and every number of operands,
\* as long as no earlier fold returned an error, each time fold extends the
\* tensor the new round is at most max_query_vars = max(1, max switchover), so
\* the update never fails for lack of capacity.
C20_TensorCapacity == [][C20_ExtendStep]_vars

\* the second fold filled a tensor provisioned for two variables, for operands
\* with switchover 0 and 2
C20_Witness ==
  /\ pc = "live" /\ n_rounds = 2 /\ round = 2 /\ query = None
  /\ MaxArgSwitchover = 2
  /\ \E j \in 1 .. Len(multilinears) : ArgSwitchover(j) = 0
  /\ \E j \in 1 .. Len(multilinears) : ArgSwitchover(j) = 2 /\ switched[j] = 1

(* ------------- round-coefficient functions (prove_utils.rs) ------------- *)
\* MultilinearComposite: a composition of degree `degree` over operands that all
\* range over n_vars variables
CompositePolys ==
  { [composition |-> e.composition, degree |-> e.degree, n_vars |-> nv,
     multilinears |-> [j \in 1 .. k |->
        [n_vars |-> nv, extension_degree |-> 1,
         evals |-> Table((j - 1) % (MaxSeed + 1), 1, nv)]]] :
      e \in Evaluators, nv \in 0 .. MaxRounds, k \in 1 .. MaxOperands }

\* the tensors of at most one challenge, 1 or 2
Tensors ==
  {MultilinearQueryNew(1).val}
    \cup {MultilinearQueryUpdate(MultilinearQueryNew(1).val, c).val : c \in 1 .. 2}

\* PreSwitchoverWitness
PreSwitchoverWitnesses == [polynomial : CompositePolys, tensor : Tensors]

\* SumcheckRoundClaim
RoundClaims ==
  {[partial_point |-> << >>, current_round_sum |-> 1],
   [partial_point |-> <<2>>, current_round_sum |-> 3]}

\* evals_0[j], evals_1[j] of compute_round_coeffs_first and _post_switchover
HypercubePair(multilin, tensor, i) ==
  LET eval0 == EvaluateOnHypercube(multilin, 2 * i)
      eval1 == EvaluateOnHypercube(multilin, 2 * i + 1)
  IN IF ~eval0.ok \/ ~eval1.ok THEN Err("tried to evaluate on hypercube vertex")
     ELSE Ok(<<eval0.val, eval1.val>>)

\* evals_0[j], evals_1[j] of compute_round_coeffs_pre_switchover
SubcubePair(multilin, tensor, i) ==
  LET eval0 == EvaluateSubcube(multilin, 2 * i, tensor)
      eval1 == EvaluateSubcube(multilin, 2 * i + 1, tensor)
  IN IF ~eval0.ok \/ ~eval1.ok THEN Err("index is in the range 0..(1 << rd_vars)")
     ELSE Ok(<<eval0.val, eval1.val>>)

\* the fold closure of a round-coefficient function run by one task on the
\* indices it was handed, from position k on; acc is the tuple
\* (evals_0, evals_1, evals_z, round_evals)
RECURSIVE CoeffsFoldClosure(_, _, _, _, _, _)
CoeffsFoldClosure(poly, subcube, tensor, indices, k, acc) ==
  IF k > Len(indices) THEN Ok(acc)
  ELSE LET n == Len(poly.multilinears)
           pairs == [j \in 1 .. n |->
                       IF subcube THEN SubcubePair(poly.multilinears[j], tensor, indices[k])
                       ELSE HypercubePair(poly.multilinears[j], tensor, indices[k])]
       IN IF \E j \in 1 .. n : ~pairs[j].ok
          THEN pairs[CHOOSE j \in 1 .. n :
                       ~pairs[j].ok /\ \A l \in 1 .. j - 1 : pairs[l].ok]
          ELSE LET evals_0 == [j \in 1 .. n |-> pairs[j].val[1]]
                   evals_1 == [j \in 1 .. n |-> pairs[j].val[2]]
                   processed == ProcessRoundEvals(poly.composition, evals_0, evals_1,
                                                  acc.evals_z, acc.round_evals, poly.degree)
               IN CoeffsFoldClosure(poly, subcube, tensor, indices, k + 1,
                    [evals_0 |-> evals_0, evals_1 |-> evals_1,
                     evals_z |-> processed.evals_z,
                     round_evals |-> processed.round_evals])

\* calculate_round_evals_from_fold_result: the partial round_evals are summed,
\* in the order of the schedule, starting from the zero vector
RECURSIVE CalculateRoundEvalsFromFoldResult(_, _, _, _)
CalculateRoundEvalsFromFoldResult(partials, order, k, overall) ==
  IF k > MaxTasks THEN Ok(overall)
  ELSE LET partial == partials[order[k]] IN
       IF ~partial.ok THEN partial
       ELSE CalculateRoundEvalsFromFoldResult(partials, order, k + 1,
              [j \in 1 .. Len(overall) |-> FAdd(overall[j], partial.val.round_evals[j])])

\* the parallel fold over 0..1 << (rd_vars - 1) and its reduction. When
\* rd_vars - 1 underflows a build with overflow checks panics; a build without
\* them wraps to a range whose first index is sampled out of range
RoundEvalsOfFold(poly, subcube, tensor, rd_vars, sched, overflow_checks) ==
  LET identity == [evals_0 |-> Zeros(Len(poly.multilinears)),
                   evals_1 |-> Zeros(Len(poly.multilinears)),
                   evals_z |-> Zeros(Len(poly.multilinears)),
                   round_evals |-> Zeros(poly.degree)]
  IN
  IF rd_vars <= 0
  THEN IF overflow_checks THEN Err("attempt to subtract with overflow")
       ELSE LET first == CoeffsFoldClosure(poly, subcube, tensor, <<0>>, 1, identity)
            IN IF first.ok THEN Err("does not return") ELSE first
  ELSE LET n == Pow2(rd_vars - 1)
           partials == [t \in 1 .. MaxTasks |->
                          CoeffsFoldClosure(poly, subcube, tensor,
                                            TaskIndices(sched, n, t), 1, identity)]
       IN CalculateRoundEvalsFromFoldResult(partials, sched.order, 1, Zeros(poly.degree))

\* the number of indices of the parallel fold of a round-coefficient function
NCoeffIndices(rd_vars) == IF rd_vars > 0 THEN Pow2(rd_vars - 1) ELSE 0

\* the kinds of build that can differ on a call: the two differ only when
\* rd_vars - 1 underflows
Builds(rd_vars) == IF rd_vars <= 0 THEN BOOLEAN ELSE {TRUE}

\* mutant: the new round replaces the rounds of the proof
PushRoundReplacing(proof, coeffs) == [rounds |-> <<[coeffs |-> coeffs]>>]

\* updated_proof.rounds.push(SumcheckRound { coeffs })
PushRound(proof, coeffs) == [rounds |-> Append(proof.rounds, [coeffs |-> coeffs])]

\* compute_round_coeffs_first
ComputeRoundCoeffsFirst(round_claim, current_witness, sched, overflow_checks) ==
  LET poly == current_witness.polynomial
      rd_vars == poly.n_vars
      round_evals == RoundEvalsOfFold(poly, FALSE, current_witness.tensor, rd_vars,
                                      sched, overflow_checks)
  IN IF ~round_evals.ok THEN [kind |-> "Panic", msg |-> round_evals.err]
     ELSE [kind |-> "Ok", claim |-> round_claim,
           current_proof |-> [rounds |-> <<[coeffs |-> round_evals.val]>>],
           current_witness |-> [polynomial |-> poly, tensor |-> current_witness.tensor]]

\* compute_round_coeffs_pre_switchover
ComputeRoundCoeffsPreSwitchover(updated_claim, current_proof, current_witness, sched, overflow_checks) ==
  LET tensor == current_witness.tensor
      poly == current_witness.polynomial
      rd_vars == poly.n_vars - tensor.n_vars
      round_evals == RoundEvalsOfFold(poly, TRUE, tensor, rd_vars, sched, overflow_checks)
  IN IF ~round_evals.ok THEN [kind |-> "Panic", msg |-> round_evals.err]
     ELSE [kind |-> "Ok", claim |-> updated_claim,
           current_proof |-> PushRound(current_proof, round_evals.val),
           current_witness |-> [polynomial |-> poly, tensor |-> tensor]]

\* elem.into(): the operating field is taken to be the field of the proof
FieldInto(elem) == elem

\* compute_round_coeffs_post_switchover
ComputeRoundCoeffsPostSwitchover(updated_claim, current_proof, current_witness, sched, overflow_checks) ==
  LET poly == current_witness
      rd_vars == poly.n_vars
      round_evals == RoundEvalsOfFold(poly, FALSE, None, rd_vars, sched, overflow_checks)
  IN IF ~round_evals.ok THEN [kind |-> "Panic", msg |-> round_evals.err]
     ELSE [kind |-> "Ok", claim |-> updated_claim,
           current_proof |->
             PushRound(current_proof,
                       [j \in 1 .. Len(round_evals.val) |-> FieldInto(round_evals.val[j])]),
           current_witness |-> poly]

\* the prover of prove_general.rs takes no part in the runs of the
\* round-coefficient functions
prover_vars == <<multilinears, query, round, n_rounds, challenges, switched, ret>>

\* before the first round-coefficient call
CoeffsInit ==
  /\ pc = "round_0"
  /\ args = [kind |-> "None"]
  /\ output = [kind |-> "None"]
  /\ calls = << >>
  /\ multilinears = << >>
  /\ query = None
  /\ round = 0
  /\ n_rounds = 0
  /\ challenges = << >>
  /\ switched = << >>
  /\ ret = [kind |-> "None"]

\* the state a call leaves: its arguments, what it returned, and on a return the
\* round it computed
Called(fn, claim, proof, witness, rd_vars, subcube, out, next_pc) ==
  /\ args' = [claim |-> claim, current_proof |-> proof, current_witness |-> witness]
  /\ output' = out
  /\ pc' = IF out.kind = "Ok" THEN next_pc ELSE "panicked"
  /\ calls' = IF out.kind = "Ok"
              THEN Append(calls,
                     [fn |-> fn,
                      coeffs |-> RoundEvalsOfFold(
                                   IF fn = "post_switchover" THEN witness
                                   ELSE witness.polynomial,
                                   subcube,
                                   IF fn = "post_switchover" THEN None ELSE witness.tensor,
                                   rd_vars, OneTask(NCoeffIndices(rd_vars)), TRUE).val])
              ELSE calls
  /\ UNCHANGED prover_vars

\* a call of compute_round_coeffs_first (called for round 0 only)
CallFirst ==
  /\ pc = "round_0"
  /\ \E claim \in RoundClaims, witness \in PreSwitchoverWitnesses :
       \E sched \in Schedules(NCoeffIndices(witness.polynomial.n_vars)),
          overflow_checks \in Builds(witness.polynomial.n_vars) :
         Called("first", claim, [rounds |-> << >>], witness, witness.polynomial.n_vars,
                FALSE,
                ComputeRoundCoeffsFirst(claim, witness, sched, overflow_checks),
                "pre_switchover")

\* a call of compute_round_coeffs_pre_switchover on the proof returned so far
CallPreSwitchover ==
  /\ pc = "pre_switchover"
  /\ Len(calls) < MaxCalls
  /\ \E claim \in RoundClaims, witness \in PreSwitchoverWitnesses :
       LET rd_vars == witness.polynomial.n_vars - witness.tensor.n_vars IN
       \E sched \in Schedules(NCoeffIndices(rd_vars)),
          overflow_checks \in Builds(rd_vars) :
         Called("pre_switchover", claim, output.current_proof, witness, rd_vars, TRUE,
                ComputeRoundCoeffsPreSwitchover(claim, output.current_proof, witness,
                                                sched, overflow_checks),
                "pre_switchover")

\* a call of compute_round_coeffs_post_switchover on the proof returned so far
CallPostSwitchover ==
  /\ pc \in {"pre_switchover", "post_switchover"}
  /\ Len(calls) < MaxCalls
  /\ \E claim \in RoundClaims, witness \in CompositePolys :
       \E sched \in Schedules(NCoeffIndices(witness.n_vars)),
          overflow_checks \in Builds(witness.n_vars) :
         Called("post_switchover", claim, output.current_proof, witness, witness.n_vars,
                FALSE,
                ComputeRoundCoeffsPostSwitchover(claim, output.current_proof, witness,
                                                 sched, overflow_checks),
                "post_switchover")

CoeffsNext == CallFirst \/ CallPreSwitchover \/ CallPostSwitchover

CoeffsSpec == CoeffsInit /\ [][CoeffsNext]_vars

\* C21 (proof transcript growth): whenever a round-coefficient function has
\* returned, it returned the claim and the witness it was given unchanged;
\* compute_round_coeffs_first returned a proof of exactly one round, the other
\* two the proof they were given with exactly one round appended at the end;
\* so after k calls the proof holds the k rounds computed, in call order.
C21_TranscriptGrowth ==
  output.kind = "Ok" =>
    LET rounds == output.current_proof.rounds
        k == Len(calls)
    IN /\ output.claim = args.claim
       /\ output.current_witness = args.current_witness
       /\ k >= 1 /\ Len(rounds) = k
       /\ \A i \in 1 .. k : rounds[i] = [coeffs |-> calls[i].coeffs]
       /\ calls[k].fn = "first" => k = 1
       /\ calls[k].fn # "first" =>
            /\ Len(args.current_proof.rounds) = k - 1
            /\ SubSeq(rounds, 1, k - 1) = args.current_proof.rounds

\* first, pre_switchover and post_switchover were called in turn and the proof
\* holds their three rounds, which differ from one another
C21_Witness ==
  /\ output.kind = "Ok" /\ Len(calls) = 3
  /\ calls[1].fn = "first" /\ calls[2].fn = "pre_switchover"
  /\ calls[3].fn = "post_switchover"
  /\ Len(output.current_proof.rounds) = 3
  /\ calls[1].coeffs # calls[2].coeffs
  /\ calls[2].coeffs # calls[3].coeffs
  /\ calls[1].coeffs # calls[3].coeffs
  /\ args.claim # [partial_point |-> << >>, current_round_sum |-> 1]
====
